---- MODULE Spec2Model ----
(***************************************************************************)
(* MCPClient (src/client.py): a client object that connects to several     *)
(* tool servers, keeps one session and one tool list per server, and       *)
(* answers a query by streaming a model response, dispatching the tool     *)
(* uses of that response to the owning sessions and streaming a follow-up  *)
(* response after every successful tool call.                              *)
(*                                                                         *)
(* Python values are modelled as follows.  A str is a TLA+ string; the     *)
(* fixed Japanese parts of the messages are written in ASCII.  A dict is   *)
(* the sequence of its <<key, value>> items in insertion order.  A list is *)
(* a sequence.  A session object is identified by the number of the        *)
(* connect call that created it.  Every await is a step of its own.        *)
(***************************************************************************)
EXTENDS Integers, Sequences, FiniteSets, TLC

\* Number of connect_to_server calls made on one client.
MaxConnects == 2
\* Number of text deltas the model streams during one process_query call.
MaxDeltas == 2
\* Number of tool_use blocks in one model response.
MaxToolUses == 2

VARIABLES
    sessions,      \* self.sessions: dict server_id -> session
    server_tools,  \* self.server_tools: dict server_id -> list of tools
    exit_stack,    \* self.exit_stack: the entered contexts, oldest first
    closed,        \* the contexts whose exit has been run
    conn,          \* the connect_to_server calls, in call order
    clean,         \* the cleanup call
    ask,           \* the process_query call
    main_pc        \* where main() is, when main() drives the client

regVars == <<sessions, server_tools, exit_stack, closed>>
vars == <<sessions, server_tools, exit_stack, closed, conn, clean, ask, main_pc>>

-----------------------------------------------------------------------------
(* Python dict: items in insertion order; assignment to a present key      *)
(* replaces the value in place.                                            *)

EmptyDict == <<>>

DictKeys(d) == {d[i][1] : i \in 1..Len(d)}

DictHas(d, k) == \E i \in 1..Len(d) : d[i][1] = k

DictGet(d, k) == d[CHOOSE i \in 1..Len(d) : d[i][1] = k][2]

DictSet(d, k, v) ==
    IF DictHas(d, k)
    THEN [i \in 1..Len(d) |-> IF d[i][1] = k THEN <<k, v>> ELSE d[i]]
    ELSE Append(d, <<k, v>>)

\* str.endswith
EndsWith(s, suffix) ==
    /\ Len(s) >= Len(suffix)
    /\ SubSeq(s, Len(s) - Len(suffix) + 1, Len(s)) = suffix

-----------------------------------------------------------------------------
(* The inputs.                                                             *)

Paths == {"a.py", "b.js", "c.txt"}

Tool(name, description) ==
    [name |-> name, description |-> description, inputSchema |-> "{x: int}"]

\* What a server's list_tools can answer.
ToolLists ==
    { <<Tool("echo", "e1")>>,
      <<Tool("echo", "e2"), Tool("double", "d2")>> }

-----------------------------------------------------------------------------
(* connect_to_server                                                       *)

\* A call: where it is, its server_id, and for the record the step that
\* raised (err) and the two dicts as they were when the call was made (pre).
ConnIdle ==
    [pc |-> "idle", server_id |-> "", err |-> "",
     pre |-> [sessions |-> EmptyDict, server_tools |-> EmptyDict]]

Awaiting == {"await_stdio", "await_session", "await_initialize", "await_list_tools"}

ConnInFlight == \E c \in 1..MaxConnects : conn[c].pc \in Awaiting

\* f"server_{n}"
ServerId(n) == "server_" \o ToString(n)

\* The identifier numbered after the tool lists instead of the sessions.
NextServerIdFromTools == ServerId(Len(server_tools) + 1)

\* server_id = f"server_{len(self.sessions) + 1}"
NextServerId == ServerId(Len(sessions) + 1)

Raise(c, e) == conn' = [conn EXCEPT ![c].pc = "raised", ![c].err = e]

\* The call up to its first await: the suffix check and the identifier.
ConnectEnter(c, path) ==
    /\ conn[c].pc = "idle"
    /\ \A b \in 1..(c - 1) : conn[b].pc # "idle"
    /\ LET is_python == EndsWith(path, ".py")
           is_js == EndsWith(path, ".js")
           pre == [sessions |-> sessions, server_tools |-> server_tools]
       IN  IF ~(is_python \/ is_js)
           THEN conn' = [conn EXCEPT ![c] =
                    [pc |-> "raised", server_id |-> "", err |-> "ValueError",
                     pre |-> pre]]
           ELSE conn' = [conn EXCEPT ![c] =
                    [pc |-> "await_stdio", server_id |-> NextServerId,
                     err |-> "", pre |-> pre]]
    /\ UNCHANGED <<regVars, clean, ask>>

\* No call is in progress: the caller awaits every call before the next one.
Quiescent == ~ConnInFlight /\ clean.pc = "idle" /\ ask.pc = "idle"

\* main: for server_path in sys.argv[1:]: await client.connect_to_server(...)
ConnectCall(c, path) ==
    /\ Quiescent
    /\ ConnectEnter(c, path)

\* A caller that starts a connect while another one is suspended at an await
\* (asyncio.gather, create_task).
ConnectCallOverlapping(c, path) ==
    /\ ConnInFlight
    /\ clean.pc = "idle" /\ ask.pc = "idle"
    /\ ConnectEnter(c, path)

Resource(kind, c) == [kind |-> kind, call |-> c]

\* await self.exit_stack.enter_async_context(stdio_client(server_params))
ConnectStdio(c, ok) ==
    /\ conn[c].pc = "await_stdio"
    /\ IF ok
       THEN /\ exit_stack' = Append(exit_stack, Resource("stdio", c))
            /\ conn' = [conn EXCEPT ![c].pc = "await_session"]
       ELSE /\ Raise(c, "stdio_client")
            /\ UNCHANGED exit_stack
    /\ UNCHANGED <<sessions, server_tools, closed, clean, ask>>

\* await self.exit_stack.enter_async_context(ClientSession(stdio, write))
ConnectSession(c, ok) ==
    /\ conn[c].pc = "await_session"
    /\ IF ok
       THEN /\ exit_stack' = Append(exit_stack, Resource("session", c))
            /\ conn' = [conn EXCEPT ![c].pc = "await_initialize"]
       ELSE /\ Raise(c, "ClientSession")
            /\ UNCHANGED exit_stack
    /\ UNCHANGED <<sessions, server_tools, closed, clean, ask>>

\* The session initialized and not stored in self.sessions.
ConnectInitializeNoStore(c, ok) ==
    /\ conn[c].pc = "await_initialize"
    /\ IF ok
       THEN conn' = [conn EXCEPT ![c].pc = "await_list_tools"]
       ELSE Raise(c, "initialize")
    /\ UNCHANGED <<regVars, clean, ask>>

\* await session.initialize(), then self.sessions[server_id] = session
ConnectInitialize(c, ok) ==
    /\ conn[c].pc = "await_initialize"
    /\ IF ok
       THEN /\ sessions' = DictSet(sessions, conn[c].server_id, c)
            /\ conn' = [conn EXCEPT ![c].pc = "await_list_tools"]
       ELSE /\ Raise(c, "initialize")
            /\ UNCHANGED sessions
    /\ UNCHANGED <<server_tools, exit_stack, closed, clean, ask>>

\* await session.list_tools(), then self.server_tools[server_id] = tools
ConnectListTools(c, ok, tools) ==
    /\ conn[c].pc = "await_list_tools"
    /\ IF ok
       THEN /\ server_tools' = DictSet(server_tools, conn[c].server_id, tools)
            /\ conn' = [conn EXCEPT ![c].pc = "returned"]
       ELSE /\ Raise(c, "list_tools")
            /\ UNCHANGED server_tools
    /\ UNCHANGED <<sessions, exit_stack, closed, clean, ask>>

-----------------------------------------------------------------------------
(* cleanup: AsyncExitStack.aclose() exits the entered contexts, newest     *)
(* first; an exit that raises does not stop the remaining exits, and the   *)
(* last exception raised is re-raised once the stack is empty.             *)

CleanIdle == [pc |-> "idle", exc |-> ""]

CleanupCall ==
    /\ Quiescent
    /\ clean' = [pc |-> "closing", exc |-> ""]
    /\ UNCHANGED <<regVars, conn, ask>>

CleanupExit(ok) ==
    /\ clean.pc = "closing"
    /\ exit_stack # <<>>
    /\ LET r == exit_stack[Len(exit_stack)]
       IN  /\ exit_stack' = SubSeq(exit_stack, 1, Len(exit_stack) - 1)
           /\ closed' = closed \cup {r}
           /\ clean' = IF ok THEN clean
                       ELSE [clean EXCEPT !.exc = "exit of " \o r.kind]
    /\ UNCHANGED <<sessions, server_tools, conn, ask>>

CleanupFinish ==
    /\ clean.pc = "closing"
    /\ exit_stack = <<>>
    /\ clean' = [clean EXCEPT !.pc = IF clean.exc = "" THEN "returned" ELSE "raised"]
    /\ UNCHANGED <<regVars, conn, ask>>

\* The caller takes the outcome of cleanup.
CleanupDone ==
    /\ clean.pc \in {"returned", "raised"}
    /\ clean' = CleanIdle
    /\ UNCHANGED <<regVars, conn, ask>>

-----------------------------------------------------------------------------

(* process_query                                                           *)

\* The query is never inspected: it is only copied into the first message.
Queries == {"anything"}

\* The text deltas of the model's streams.
Deltas == {"a", "b"}

\* A tool_use content block: name, input {"x": x} and, when the block carries
\* one, a text attribute ("" when it has none).
ToolUse(name, x, text) == [name |-> name, input |-> [x |-> x], text |-> text]

ToolUseBlocks ==
    { ToolUse("echo", 7, ""), ToolUse("double", 21, "t"), ToolUse("ghost", 3, "") }

\* The tool_use blocks of a final message, in the order of its content.
ToolUseSeqs == UNION {[1..n -> ToolUseBlocks] : n \in 0..MaxToolUses}

\* An exception: its class and str(e).
Exc(class, text) == [class |-> class, text |-> text]

\* The classes that derive from BaseException and not from Exception.
NotExceptions == {"CancelledError", "KeyboardInterrupt"}

\* What "except Exception" catches.
IsException(class) == class \notin NotExceptions

\* result.content of a successful call_tool; what a failed call_tool raises
\* (an error of the tool, or the cancellation of the task suspended at the
\* await); what a failed model call raises.
Results == {"42"}
ToolErrors == {Exc("Exception", "tool failed"), Exc("CancelledError", "tool failed")}
ModelErrors == {Exc("Exception", "overloaded"), Exc("KeyboardInterrupt", "")}

\* repr of the input dict
Repr(input) == "{'x': " \o ToString(input.x) \o "}"

NoSessionMsg == "Error: not connected to a server. Connect to a server first."

NoServerMsg(tool_name) ==
    "\nError: no server found for tool '" \o tool_name \o "'."

ToolMsg(server_id, tool_name, tool_args) ==
    "\n[calling tool " \o tool_name \o " of " \o server_id
        \o ", args: " \o Repr(tool_args) \o "]"

ToolResultMsg(content) == "\nTool result: " \o content

ProcessingMsg == "\n\nClaude is processing the tool result...\n"

ToolErrorMsg(server_id, e) ==
    "\nTool execution error (" \o server_id \o "): " \o e

\* sep.join(xs)
RECURSIVE Join(_, _)
Join(sep, xs) ==
    IF xs = <<>> THEN ""
    ELSE IF Len(xs) = 1 THEN xs[1]
    ELSE xs[1] \o sep \o Join(sep, Tail(xs))

\* The <<server_id, tool>> pairs in the order the two nested loops visit them.
RECURSIVE ToolItems(_)
ToolItems(st) ==
    IF st = <<>> THEN <<>>
    ELSE [i \in 1..Len(st[1][2]) |-> <<st[1][1], st[1][2][i]>>]
            \o ToolItems(Tail(st))

CatalogEntry(tool) ==
    [name |-> tool.name, description |-> tool.description,
     input_schema |-> tool.inputSchema]

\* The catalog kept from one call to the next and appended to.
AvailableToolsAccumulated(st) ==
    ask.available_tools
        \o [i \in 1..Len(ToolItems(st)) |-> CatalogEntry(ToolItems(st)[i][2])]

\* available_tools after the loops
AvailableTools(st) ==
    [i \in 1..Len(ToolItems(st)) |-> CatalogEntry(ToolItems(st)[i][2])]

\* The map keeping the first server of a name instead of the last.
MapPutFirst(m, tool_name, server_id) ==
    IF DictHas(m, tool_name) THEN m ELSE DictSet(m, tool_name, server_id)

\* tool_to_server_map[qualified_tool_name] = server_id
MapPut(m, tool_name, server_id) == DictSet(m, tool_name, server_id)

RECURSIVE MapOfItems(_)
MapOfItems(items) ==
    IF items = <<>> THEN EmptyDict
    ELSE LET n == Len(items)
         IN  MapPut(MapOfItems(SubSeq(items, 1, n - 1)),
                    items[n][2].name, items[n][1])

\* tool_to_server_map after the loops
ToolToServerMap(st) == MapOfItems(ToolItems(st))

\* The test written "self.sessions is None": a dict is never None.
NoSessionsIsNone == FALSE

\* if not self.sessions
NoSessions == Len(sessions) = 0

UserMsg(content) == [role |-> "user", content |-> content]
AssistantMsg(content) == [role |-> "assistant", content |-> content]

\* A request to the model: the messages and, when given, the tools.
ModelCall(messages, with_tools, tools) ==
    [messages |-> messages, with_tools |-> with_tools, tools |-> tools]

\* A call: where it is and its local variables; i is the position of the
\* tool_uses loop.  For the record: what output_callback received (sink), the
\* requests made to the model, the number of them that failed, the call_tool
\* invocations with their outcome, and the number of text deltas streamed.
AskIdle ==
    [pc |-> "idle", query |-> "", messages |-> <<>>, available_tools |-> <<>>,
     tool_to_server_map |-> EmptyDict, final_text |-> <<>>, text_buffer |-> "",
     tool_uses |-> <<>>, i |-> 0, server_id |-> "", ret |-> "", err |-> "",
     sink |-> <<>>, model_calls |-> <<>>, model_failures |-> 0,
     tool_calls |-> <<>>, deltas |-> 0]

\* output_callback(text)
Output(a, kind, text) ==
    [a EXCEPT !.sink = Append(@, [kind |-> kind, text |-> text])]

\* The message list kept from one call to the next and appended to.
ContinuedMessages(query) == Append(ask.messages, UserMsg(query))

\* messages = [{"role": "user", "content": query}]
InitialMessages(query) == <<UserMsg(query)>>

\* The call up to the first model stream: its local variables.
AskStart(query) ==
    IF NoSessions
    THEN [AskIdle EXCEPT !.pc = "returned", !.query = query,
                         !.ret = NoSessionMsg]
    ELSE LET messages == InitialMessages(query)
             tools == AvailableTools(server_tools)
         IN  [AskIdle EXCEPT
                 !.pc = "streaming", !.query = query,
                 !.messages = messages,
                 !.available_tools = tools,
                 !.tool_to_server_map = ToolToServerMap(server_tools),
                 !.model_calls = <<ModelCall(messages, TRUE, tools)>>]

AskCall(query) ==
    /\ Quiescent
    /\ ask' = AskStart(query)
    /\ UNCHANGED <<regVars, conn, clean>>

\* The next call made as soon as the previous one has ended (chat_loop: the
\* next line read after a response or after an exception was printed).
AskAgain(query) ==
    /\ ask.pc \in {"returned", "raised"}
    /\ ~ConnInFlight /\ clean.pc = "idle"
    /\ ask' = AskStart(query)
    /\ UNCHANGED <<regVars, conn, clean>>

\* The buffer assigned instead of extended.
SetBuffer(a, d) == [a EXCEPT !.text_buffer = d]

\* text_buffer += event.delta.text
AddDelta(a, d) == [a EXCEPT !.text_buffer = @ \o d]

\* content_block_delta with a text_delta, first stream.  The other events
\* before message_stop change nothing and are left out.
StreamTextDelta(d) ==
    /\ ask.pc = "streaming"
    /\ ask.deltas < MaxDeltas
    /\ ask' = [Output(AddDelta(ask, d), "delta", d) EXCEPT !.deltas = @ + 1]
    /\ UNCHANGED <<regVars, conn, clean>>

\* The first model call fails, on opening the stream or while reading it:
\* nothing catches it.
StreamError(e) ==
    /\ ask.pc = "streaming"
    /\ ask' = [ask EXCEPT !.pc = "raised", !.err = e.class,
                          !.model_failures = @ + 1]
    /\ UNCHANGED <<regVars, conn, clean>>

\* The buffer cleared without being appended to final_text.
DropBuffer(a) == [a EXCEPT !.text_buffer = ""]

\* if text_buffer: final_text.append(text_buffer); text_buffer = ""
\* (at message_stop of the first stream and after a follow-up stream)
FlushBuffer(a) ==
    IF a.text_buffer # ""
    THEN [a EXCEPT !.final_text = Append(@, a.text_buffer), !.text_buffer = ""]
    ELSE a

\* message_stop, the last event of the first stream, then get_final_message
StreamMessageStop(uses) ==
    /\ ask.pc = "streaming"
    /\ ask' = [FlushBuffer(ask) EXCEPT !.pc = "dispatch", !.tool_uses = uses, !.i = 1]
    /\ UNCHANGED <<regVars, conn, clean>>

\* The next tool_use of the loop, up to await session.call_tool.
DispatchToolUse ==
    /\ ask.pc = "dispatch"
    /\ ask.i <= Len(ask.tool_uses)
    /\ LET tool_content == ask.tool_uses[ask.i]
           tool_name == tool_content.name
           tool_args == tool_content.input
           found == DictHas(ask.tool_to_server_map, tool_name)
           server_id == DictGet(ask.tool_to_server_map, tool_name)
       IN  IF ~found
           THEN ask' = [Output(ask, "error", NoServerMsg(tool_name)) EXCEPT
                           !.final_text = Append(@, NoServerMsg(tool_name)),
                           !.i = @ + 1]
           ELSE IF ~DictHas(sessions, server_id)
           THEN ask' = [ask EXCEPT !.pc = "raised", !.err = "KeyError"]
           ELSE LET tool_msg == ToolMsg(server_id, tool_name, tool_args)
                IN  ask' = [Output(ask, "notice", tool_msg) EXCEPT
                        !.final_text = Append(@, tool_msg),
                        !.server_id = server_id,
                        !.tool_calls = Append(@,
                            [session |-> DictGet(sessions, server_id),
                             name |-> tool_name, args |-> tool_args,
                             outcome |-> "pending"]),
                        !.pc = "await_call_tool"]
    /\ UNCHANGED <<regVars, conn, clean>>

\* The except branch leaving the loop where it is: the tool use is tried again.
ExceptBranchRetry(a, e) ==
    LET error_msg == ToolErrorMsg(a.server_id, e)
    IN  [Output(a, "error", error_msg) EXCEPT
            !.final_text = Append(@, error_msg), !.pc = "dispatch"]

\* except Exception as e, around call_tool and the follow-up stream
ExceptBranch(a, e) ==
    LET error_msg == ToolErrorMsg(a.server_id, e)
    IN  [Output(a, "error", error_msg) EXCEPT
            !.final_text = Append(@, error_msg), !.i = @ + 1, !.pc = "dispatch"]

\* messages after a tool result
WithToolResult(messages, tool_content, content) ==
    (IF tool_content.text # ""
     THEN Append(messages, AssistantMsg(tool_content.text))
     ELSE messages) \o <<UserMsg(content)>>

\* call_tool returns: the result is output and the follow-up call is made.
CallToolResult(content) ==
    /\ ask.pc = "await_call_tool"
    /\ LET messages == WithToolResult(ask.messages, ask.tool_uses[ask.i], content)
           a1 == Output(ask, "result", ToolResultMsg(content))
           a2 == Output(a1, "notice", ProcessingMsg)
       IN  ask' = [a2 EXCEPT
                      !.tool_calls[Len(ask.tool_calls)].outcome = "result",
                      !.messages = messages,
                      !.model_calls = Append(@, ModelCall(messages, FALSE, <<>>)),
                      !.pc = "follow_streaming"]
    /\ UNCHANGED <<regVars, conn, clean>>

\* call_tool raises: "except Exception" catches an Exception; any other
\* exception ends process_query there.
CallToolError(e) ==
    /\ ask.pc = "await_call_tool"
    /\ ask' = IF IsException(e.class)
              THEN [ExceptBranch(ask, e.text) EXCEPT
                       !.tool_calls[Len(ask.tool_calls)].outcome = "error"]
              ELSE [ask EXCEPT
                       !.pc = "raised", !.err = e.class,
                       !.tool_calls[Len(ask.tool_calls)].outcome = "error"]
    /\ UNCHANGED <<regVars, conn, clean>>

\* content_block_delta with a text_delta, follow-up stream
FollowTextDelta(d) ==
    /\ ask.pc = "follow_streaming"
    /\ ask.deltas < MaxDeltas
    /\ ask' = [Output(AddDelta(ask, d), "delta", d) EXCEPT !.deltas = @ + 1]
    /\ UNCHANGED <<regVars, conn, clean>>

\* The follow-up model call fails, on opening the stream or while reading
\* it: the call is inside the try, whose "except Exception" catches an
\* Exception; any other exception ends process_query there.
FollowError(e) ==
    /\ ask.pc = "follow_streaming"
    /\ ask' = IF IsException(e.class)
              THEN [ExceptBranch(ask, e.text) EXCEPT !.model_failures = @ + 1]
              ELSE [ask EXCEPT !.pc = "raised", !.err = e.class,
                               !.model_failures = @ + 1]
    /\ UNCHANGED <<regVars, conn, clean>>

\* The tool_use blocks a follow-up response can carry.
FollowToolUses == {<<>>} \cup {<<u>> : u \in ToolUseBlocks}

\* The follow-up response's tool uses appended to the loop's list.
FollowEndChaining(uses) ==
    /\ ask.pc = "follow_streaming"
    /\ ask' = [FlushBuffer(ask) EXCEPT !.i = @ + 1, !.pc = "dispatch",
                                       !.tool_uses = @ \o uses]
    /\ UNCHANGED <<regVars, conn, clean>>

\* The follow-up stream ends.  Its events other than text deltas are skipped
\* and its final message is never read: the tool_use blocks it carries (uses)
\* are dropped.
FollowEnd(uses) ==
    /\ ask.pc = "follow_streaming"
    /\ ask' = [FlushBuffer(ask) EXCEPT !.i = @ + 1, !.pc = "dispatch"]
    /\ UNCHANGED <<regVars, conn, clean>>

\* return "\n".join(final_text)
AskReturn ==
    /\ ask.pc = "dispatch"
    /\ ask.i > Len(ask.tool_uses)
    /\ ask' = [ask EXCEPT !.pc = "returned", !.ret = Join("\n", ask.final_text)]
    /\ UNCHANGED <<regVars, conn, clean>>

\* The caller takes the outcome of process_query.
AskDone ==
    /\ ask.pc \in {"returned", "raised"}
    /\ ask' = AskIdle
    /\ UNCHANGED <<regVars, conn, clean>>

-----------------------------------------------------------------------------

Init ==
    /\ sessions = EmptyDict
    /\ server_tools = EmptyDict
    /\ exit_stack = <<>>
    /\ closed = {}
    /\ conn = [c \in 1..MaxConnects |-> ConnIdle]
    /\ clean = CleanIdle
    /\ ask = AskIdle
    /\ main_pc = "connect"

ConnectStep ==
    \E c \in 1..MaxConnects :
        \/ \E ok \in BOOLEAN : ConnectStdio(c, ok)
        \/ \E ok \in BOOLEAN : ConnectSession(c, ok)
        \/ \E ok \in BOOLEAN : ConnectInitialize(c, ok)
        \/ \E ok \in BOOLEAN, tools \in ToolLists : ConnectListTools(c, ok, tools)

CleanupStep ==
    \/ \E ok \in BOOLEAN : CleanupExit(ok)
    \/ CleanupFinish

AskStep ==
    \/ \E d \in Deltas : StreamTextDelta(d)
    \/ \E e \in ModelErrors : StreamError(e)
    \/ \E uses \in ToolUseSeqs : StreamMessageStop(uses)
    \/ DispatchToolUse
    \/ \E content \in Results : CallToolResult(content)
    \/ \E e \in ToolErrors : CallToolError(e)
    \/ \E d \in Deltas : FollowTextDelta(d)
    \/ \E e \in ModelErrors : FollowError(e)
    \/ \E uses \in FollowToolUses : FollowEnd(uses)
    \/ AskReturn

-----------------------------------------------------------------------------
(* The client used as a library: the caller makes connect_to_server,       *)
(* process_query and cleanup calls in any order, awaiting each one.        *)

Next ==
    /\ \/ \E c \in 1..MaxConnects, path \in Paths : ConnectCall(c, path)
       \/ ConnectStep
       \/ CleanupCall
       \/ CleanupStep
       \/ CleanupDone
       \/ \E query \in Queries : AskCall(query)
       \/ \E query \in Queries : AskAgain(query)
       \/ AskStep
       \/ AskDone
    /\ UNCHANGED main_pc

Spec == Init /\ [][Next]_vars

(* A caller that only connects and cleans up.                              *)

NextRegistry ==
    /\ \/ \E c \in 1..MaxConnects, path \in Paths : ConnectCall(c, path)
       \/ ConnectStep
       \/ CleanupCall
       \/ CleanupStep
       \/ CleanupDone
    /\ UNCHANGED main_pc

SpecRegistry == Init /\ [][NextRegistry]_vars

(* A caller that only connects and cleans up, and whose connect calls may  *)
(* overlap.                                                                *)

NextOverlapping ==
    /\ \/ \E c \in 1..MaxConnects, path \in Paths : ConnectCall(c, path)
       \/ \E c \in 1..MaxConnects, path \in Paths : ConnectCallOverlapping(c, path)
       \/ ConnectStep
       \/ CleanupCall
       \/ CleanupStep
       \/ CleanupDone
    /\ UNCHANGED main_pc

SpecOverlapping == Init /\ [][NextOverlapping]_vars

-----------------------------------------------------------------------------
(* The client driven by main(): one connect per command-line argument, in  *)
(* order; then chat_loop, one process_query per line read; cleanup in the  *)
(* finally clause, on quit or on the first exception of a connect.         *)

AllReturned == \A c \in 1..MaxConnects : conn[c].pc \in {"idle", "returned"}

\* await client.connect_to_server(server_path)
MainConnect(c, path) ==
    /\ main_pc = "connect"
    /\ AllReturned
    /\ ConnectCall(c, path)
    /\ UNCHANGED main_pc

\* await client.chat_loop(), after the last argument
MainChatLoop ==
    /\ main_pc = "connect"
    /\ Quiescent
    /\ AllReturned
    /\ conn[1].pc = "returned"
    /\ main_pc' = "chat"
    /\ UNCHANGED <<regVars, conn, clean, ask>>

\* await self.process_query(query)
MainQuery(query) ==
    /\ main_pc = "chat"
    /\ AskCall(query)
    /\ UNCHANGED main_pc

\* process_query has raised an exception that chat_loop's "except Exception"
\* does not catch.
Escaped == ask.pc = "raised" /\ ~IsException(ask.err)

\* await self.process_query(query), the loop's next turn
MainQueryAgain(query) ==
    /\ main_pc = "chat"
    /\ ~Escaped
    /\ AskAgain(query)
    /\ UNCHANGED main_pc

\* The loop has the response, or has printed the Exception it caught.
MainAskDone ==
    /\ main_pc = "chat"
    /\ ~Escaped
    /\ AskDone
    /\ UNCHANGED main_pc

\* The exception leaves chat_loop and main(): finally: await client.cleanup()
MainEscape ==
    /\ main_pc = "chat"
    /\ Escaped
    /\ ~ConnInFlight /\ clean.pc = "idle"
    /\ ask' = AskIdle
    /\ clean' = [pc |-> "closing", exc |-> ""]
    /\ main_pc' = "finally"
    /\ UNCHANGED <<regVars, conn>>

\* finally: await client.cleanup()
MainFinally ==
    /\ \/ main_pc = "chat"
       \/ main_pc = "connect" /\ ~AllReturned
    /\ CleanupCall
    /\ main_pc' = "finally"

\* main() ends, with the outcome of cleanup or the exception that escaped.
MainExit ==
    /\ main_pc = "finally"
    /\ CleanupDone
    /\ main_pc' = "exit"

NextMain ==
    \/ \E c \in 1..MaxConnects, path \in Paths : MainConnect(c, path)
    \/ ConnectStep /\ UNCHANGED main_pc
    \/ MainChatLoop
    \/ \E query \in Queries : MainQuery(query)
    \/ \E query \in Queries : MainQueryAgain(query)
    \/ AskStep /\ UNCHANGED main_pc
    \/ MainAskDone
    \/ MainEscape
    \/ MainFinally
    \/ CleanupStep /\ UNCHANGED main_pc
    \/ MainExit

SpecMain == Init /\ [][NextMain]_vars

-----------------------------------------------------------------------------
(* Properties of the session registry.                                     *)

\* The connect call made last.
LastCall(c) ==
    /\ conn[c].pc # "idle"
    /\ \A b \in (c + 1)..MaxConnects : conn[b].pc = "idle"

\* Call c has stored its session in self.sessions.
Registered(c) ==
    \/ conn[c].pc \in {"await_list_tools", "returned"}
    \/ conn[c].pc = "raised" /\ conn[c].err = "list_tools"

\* The number n of an identifier server_n.
IndexOf(server_id) == CHOOSE n \in 1..(MaxConnects + 1) : ServerId(n) = server_id

\* C1: connect is all-or-nothing.  When a connect call has failed, whatever
\* the step that failed, self.sessions and self.server_tools are what they
\* were when the call was made, and the two have the same keys.
C1_ConnectAllOrNothing ==
    \A c \in 1..MaxConnects :
        (LastCall(c) /\ conn[c].pc = "raised") =>
            /\ sessions = conn[c].pre.sessions
            /\ server_tools = conn[c].pre.server_tools
            /\ DictKeys(sessions) = DictKeys(server_tools)

\* C2: the identifiers returned by connect calls increase strictly in call
\* order, also when the calls overlap at their awaits.
C2_IdsInCallOrder ==
    \A c1, c2 \in 1..MaxConnects :
        (c1 < c2 /\ conn[c1].pc = "returned" /\ conn[c2].pc = "returned") =>
            IndexOf(conn[c1].server_id) < IndexOf(conn[c2].server_id)

\* C3: once a session is registered under an identifier, the identifier maps
\* to that session ever after: no later connect, failed or not, and no
\* cleanup gives the identifier to another session or removes the entry.
C3_IdentifierKeepsSession ==
    \A c \in 1..MaxConnects :
        Registered(c) =>
            /\ DictHas(sessions, conn[c].server_id)
            /\ DictGet(sessions, conn[c].server_id) = c

\* A connect that registered its session and then failed, a cleanup, and a
\* later connect that returned.
C3_Witness ==
    /\ conn[1].pc = "raised" /\ conn[1].err = "list_tools"
    /\ closed # {}
    /\ conn[2].pc = "returned"
    /\ clean.pc = "idle"

-----------------------------------------------------------------------------
(* Properties of process_query.                                            *)

\* The tools call c stored at the end of a connect that returned.
ToolsOf(c) == DictGet(server_tools, conn[c].server_id)

\* Call c returned and its session advertises the name.
Advertises(c, tool_name) ==
    /\ conn[c].pc = "returned"
    /\ \E i \in 1..Len(ToolsOf(c)) : ToolsOf(c)[i].name = tool_name

AdvertisedNames ==
    UNION {{ToolsOf(c)[i].name : i \in 1..Len(ToolsOf(c))} :
              c \in {b \in 1..MaxConnects : conn[b].pc = "returned"}}

\* The last connect call whose session advertises the name.
LatestAdvertising(tool_name) ==
    CHOOSE c \in 1..MaxConnects :
        /\ Advertises(c, tool_name)
        /\ \A b \in (c + 1)..MaxConnects : ~Advertises(b, tool_name)

\* process_query has built its catalog and routing map.
AskRouted == ask.pc \notin {"idle"} /\ ask.model_calls # <<>>

\* C4: last writer wins.  The routing map of process_query holds exactly the
\* advertised names, and maps each to the session registered last among the
\* sessions advertising it (the only one, when there is one).
C4_LastWriterWins ==
    AskRouted =>
        /\ DictKeys(ask.tool_to_server_map) = AdvertisedNames
        /\ \A tool_name \in AdvertisedNames :
              DictGet(ask.tool_to_server_map, tool_name)
                  = conn[LatestAdvertising(tool_name)].server_id

\* Two sessions advertising "echo", the first one alone advertising "double".
C4_Witness ==
    /\ AskRouted
    /\ Advertises(1, "echo") /\ Advertises(2, "echo")
    /\ Advertises(1, "double") /\ ~Advertises(2, "double")
    /\ DictGet(ask.tool_to_server_map, "echo") = "server_2"
    /\ DictGet(ask.tool_to_server_map, "double") = "server_1"

\* The texts of the entries of one kind the output callback received, in order.
RECURSIVE SinkText(_, _)
SinkText(sink, kind) ==
    IF sink = <<>> THEN ""
    ELSE (IF sink[1].kind = kind THEN sink[1].text ELSE "")
            \o SinkText(Tail(sink), kind)

\* C5: when the response has no tool use, the text process_query returns is
\* the concatenation, in order, of the text deltas the callback received.
C5_ReturnsConcatenatedDeltas ==
    (ask.pc = "returned" /\ ask.model_calls # <<>> /\ ask.tool_uses = <<>>) =>
        ask.ret = SinkText(ask.sink, "delta")

\* A response of two text deltas and no tool use.
C5_Witness ==
    /\ ask.pc = "returned"
    /\ ask.tool_uses = <<>>
    /\ Len(ask.sink) = 2
    /\ ask.sink[1].text # ask.sink[2].text
    /\ ask.ret = ask.sink[1].text \o ask.sink[2].text

\* The number of messages of the transcript with one of the given contents.
CountContent(messages, contents) ==
    Cardinality({j \in 1..Len(messages) : messages[j].content \in contents})

AskEnded == ask.pc \in {"returned", "raised"}

\* The tool uses of the response whose name is not in the routing map.
Unresolved ==
    {i \in 1..Len(ask.tool_uses) :
        ~DictHas(ask.tool_to_server_map, ask.tool_uses[i].name)}

\* The tool calls that raised.
FailedCalls == {k \in 1..Len(ask.tool_calls) : ask.tool_calls[k].outcome = "error"}

\* C6: a tool use whose name resolves to no session does not abort the turn:
\* when no tool call and no model call of the turn has failed, process_query
\* returns, and the messages sent to the model hold exactly one synthesized
\* error entry for each such tool use.
C6_UnresolvedToolInTranscript ==
    (AskEnded /\ Unresolved # {} /\ FailedCalls = {} /\ ask.model_failures = 0) =>
        /\ ask.pc = "returned"
        /\ \A i \in Unresolved :
              CountContent(ask.messages, {NoServerMsg(ask.tool_uses[i].name)})
                  = Cardinality({k \in Unresolved :
                        ask.tool_uses[k].name = ask.tool_uses[i].name})

ToolErrorTexts ==
    {ToolErrorMsg(sid, e.text) : sid \in DictKeys(sessions), e \in ToolErrors}

\* C7: a tool call that fails does not abort the turn: unless the turn was
\* ended by an exception that is no Exception (the cancellation of the task,
\* an interrupt), process_query returns with every tool use of the response
\* processed, and the messages hold a synthesized error entry for each
\* failed call.
C7_FailedCallInTranscript ==
    (AskEnded /\ FailedCalls # {} /\ ~Escaped) =>
        /\ ask.pc = "returned"
        /\ ask.i = Len(ask.tool_uses) + 1
        /\ CountContent(ask.messages, ToolErrorTexts) = Cardinality(FailedCalls)

\* Some output of the callback carries the text of a model error.
ModelErrorInOutput ==
    \E j \in 1..Len(ask.sink), sid \in DictKeys(sessions), e \in ModelErrors :
        ask.sink[j].text = ToolErrorMsg(sid, e.text)

\* C8: a failure of any model call of process_query, the first or a
\* follow-up, propagates to the caller and is never turned into output text.
C8_ModelErrorPropagates ==
    ask.model_failures > 0 =>
        /\ ask.pc = "raised"
        /\ ~ModelErrorInOutput

\* One session; a first response that is a single tool use of a tool the
\* session advertises; a tool result; a follow-up response that ends.
C9_Scenario ==
    /\ ask.pc = "returned"
    /\ Len(sessions) = 1
    /\ Len(ask.tool_uses) = 1
    /\ DictHas(ask.tool_to_server_map, ask.tool_uses[1].name)
    /\ ask.sink[1].kind = "notice"
    /\ Len(ask.tool_calls) = 1
    /\ ask.tool_calls[1].outcome = "result"
    /\ ask.model_failures = 0

C9_CalledOnce ==
    ask.tool_calls =
        <<[session |-> sessions[1][2], name |-> ask.tool_uses[1].name,
           args |-> ask.tool_uses[1].input, outcome |-> "result"]>>

\* C9 as stated: in the scenario process_query returns exactly the text T of
\* the follow-up response, and call_tool was invoked once with the arguments.
C9_ReturnsExactlyT ==
    C9_Scenario =>
        /\ ask.ret = SinkText(ask.sink, "delta")
        /\ C9_CalledOnce

\* C9 amended: in the scenario process_query returns the notice of the tool
\* call, followed by a newline and T when T is not empty, and call_tool was
\* invoked once with the arguments.
C9_ReturnsNoticeThenT ==
    C9_Scenario =>
        LET T == SinkText(ask.sink, "delta")
            notice == ToolMsg(sessions[1][1], ask.tool_uses[1].name,
                              ask.tool_uses[1].input)
        IN  /\ ask.ret = IF T = "" THEN notice ELSE notice \o "\n" \o T
            /\ C9_CalledOnce

\* The scenario with a follow-up text of two deltas.
C9_Witness ==
    /\ C9_Scenario
    /\ SinkText(ask.sink, "delta") = "ab"
    /\ ask.tool_uses[1].name = "double"

\* C10: with no session in self.sessions, process_query returns the fixed
\* message and calls neither the model nor a tool.
C10_NoSessionNoModelCall ==
    (ask.pc # "idle" /\ Len(sessions) = 0) =>
        /\ ask.pc = "returned"
        /\ ask.ret = NoSessionMsg
        /\ ask.model_calls = <<>>
        /\ ask.tool_calls = <<>>
        /\ ask.sink = <<>>

\* The query "anything" answered after a connect that failed.
C10_Witness ==
    /\ ask.pc = "returned"
    /\ ask.query = "anything"
    /\ Len(sessions) = 0
    /\ conn[1].pc = "raised"
    /\ ask.ret = NoSessionMsg

-----------------------------------------------------------------------------
(* Properties of cleanup and of the registry after failed connects.        *)

\* Call c has entered its stdio_client context on the exit stack.
StdioEntered(c) ==
    \/ conn[c].pc \in {"await_session", "await_initialize", "await_list_tools",
                       "returned"}
    \/ conn[c].pc = "raised"
          /\ conn[c].err \in {"ClientSession", "initialize", "list_tools"}

\* Call c has entered its ClientSession context on the exit stack.
SessionEntered(c) ==
    \/ conn[c].pc \in {"await_initialize", "await_list_tools", "returned"}
    \/ conn[c].pc = "raised" /\ conn[c].err \in {"initialize", "list_tools"}

\* Every context entered so far.
Acquired ==
    {Resource("stdio", c) : c \in {b \in 1..MaxConnects : StdioEntered(b)}}
        \cup {Resource("session", c) :
                 c \in {b \in 1..MaxConnects : SessionEntered(b)}}

\* Whatever exits failed, cleanup has run the exit of every entered context.
CleanupReleasesAll ==
    clean.pc \in {"returned", "raised"} =>
        /\ exit_stack = <<>>
        /\ Acquired \subseteq closed

\* C11: cleanup is best-effort.  Whatever exits failed, it has run the exit
\* of every entered context when it ends, and it ends by returning to its
\* caller, never by raising.
C11_CleanupBestEffort ==
    /\ CleanupReleasesAll
    /\ clean.pc # "raised"

\* C18: routing never points outside the registry.  After any successful and
\* failed connects, every identifier holding a tool list is a key of
\* self.sessions, so is every value of the routing map process_query builds
\* from the tool lists, and the session lookup at dispatch raises no KeyError.
C18_RoutingInsideRegistry ==
    /\ DictKeys(server_tools) \subseteq DictKeys(sessions)
    /\ LET m == ToolToServerMap(server_tools)
       IN  \A tool_name \in DictKeys(m) : DictHas(sessions, DictGet(m, tool_name))
    /\ ask.err # "KeyError"

\* A connect that failed at list_tools, then a connect that returned with
\* two tools: two sessions, one tool list.
C18_Witness ==
    /\ conn[1].pc = "raised" /\ conn[1].err = "list_tools"
    /\ conn[2].pc = "returned"
    /\ DictKeys(sessions) = {"server_1", "server_2"}
    /\ DictKeys(server_tools) = {"server_2"}
    /\ DictKeys(ToolToServerMap(server_tools)) = {"echo", "double"}

-----------------------------------------------------------------------------
(* Properties of process_query: the catalog, the dispatch loop, the        *)
(* returned text and what one call leaves behind.                          *)

\* A call that built its catalog has ended and the next call begins, with no
\* connect and no cleanup in between.
NextAskBegins ==
    /\ ask.pc \in {"returned", "raised"}
    /\ ask.model_calls # <<>>
    /\ ask'.pc = "streaming"

\* C12: building the catalog is idempotent.  Two process_query calls with no
\* connect and no cleanup between them build the same catalog, entry for
\* entry, and the same routing map.
C12_CatalogIdempotent ==
    [][NextAskBegins =>
          /\ ask'.available_tools = ask.available_tools
          /\ ask'.tool_to_server_map = ask.tool_to_server_map]_vars

\* A call that has ended with the catalog of two sessions, three entries for
\* two names: the state the next call begins in.
C12_Witness ==
    /\ ask.pc = "returned"
    /\ Len(ask.available_tools) = 3
    /\ DictKeys(ask.tool_to_server_map) = {"echo", "double"}
    /\ ask.available_tools = AvailableTools(server_tools)

\* The tool uses after position n whose name the routing map resolves.
ResolvableAfter(n) ==
    {j \in (n + 1)..Len(ask.tool_uses) :
        DictHas(ask.tool_to_server_map, ask.tool_uses[j].name)}

\* C13: the model is called again only once every tool use of the response
\* has been dispatched: no follow-up call is made while a tool use remains to
\* be dispatched, and a response whose tool calls returned results leads to
\* exactly one follow-up call.
C13_OneFollowUpAfterAllDispatches ==
    /\ ask.pc = "follow_streaming" => ResolvableAfter(ask.i) = {}
    /\ (ask.pc = "returned"
          /\ \E k \in 1..Len(ask.tool_calls) : ask.tool_calls[k].outcome = "result")
         => Len(ask.model_calls) = 2

\* The places of the tool_uses loop.
InLoop == {"dispatch", "await_call_tool", "follow_streaming"}

\* C14: every follow-up model call is made without the catalog, and the tool
\* uses of a follow-up response are never dispatched: from the end of the
\* first response to the return the list the loop dispatches from does not
\* change, and each call_tool is the call of the tool use the loop is at.
C14_OneDispatchRound ==
    [][/\ \A j \in 2..Len(ask'.model_calls) :
             /\ ~ask'.model_calls[j].with_tools
             /\ ask'.model_calls[j].tools = <<>>
       /\ (ask.pc \in InLoop /\ ask'.pc \in InLoop \cup {"returned"})
             => ask'.tool_uses = ask.tool_uses
       /\ (ask.pc \in InLoop /\ Len(ask'.tool_calls) > Len(ask.tool_calls))
             => /\ ask.pc = "dispatch"
                /\ Len(ask'.tool_calls) = Len(ask.tool_calls) + 1
                /\ ask'.tool_calls[Len(ask'.tool_calls)].name
                       = ask.tool_uses[ask.i].name
                /\ ask'.tool_calls[Len(ask'.tool_calls)].args
                       = ask.tool_uses[ask.i].input]_vars

\* Two tool calls and two follow-up responses, then the return.
C14_Witness ==
    /\ ask.pc = "returned"
    /\ Len(ask.model_calls) = 3
    /\ Len(ask.tool_calls) = 2
    /\ Len(ask.tool_uses) = 2

\* The calls the loop makes for a list of tool uses: one for each tool use
\* whose name the routing map m resolves, on the session the map names.
RECURSIVE ExpectedCalls(_, _)
ExpectedCalls(uses, m) ==
    IF uses = <<>> THEN <<>>
    ELSE (IF DictHas(m, uses[1].name)
          THEN <<[session |-> DictGet(sessions, DictGet(m, uses[1].name)),
                  name |-> uses[1].name, args |-> uses[1].input]>>
          ELSE <<>>) \o ExpectedCalls(Tail(uses), m)

\* The number of tool uses the loop has reached.
Reached == IF ask.pc = "dispatch" THEN ask.i - 1
           ELSE IF ask.pc = "returned" THEN Len(ask.tool_uses)
           ELSE ask.i

\* C15: the tool uses are dispatched in the order of the response.  The
\* call_tool invocations made so far are the tool uses reached so far whose
\* name resolves, in order, each once and on the session the routing map
\* names; and a call has ended, by a result or an error, before the next.
C15_DispatchInOrder ==
    ask.pc \in InLoop \cup {"returned"} =>
        /\ [k \in 1..Len(ask.tool_calls) |->
               [session |-> ask.tool_calls[k].session,
                name |-> ask.tool_calls[k].name,
                args |-> ask.tool_calls[k].args]]
             = ExpectedCalls(SubSeq(ask.tool_uses, 1, Reached),
                             ask.tool_to_server_map)
        /\ \A k \in 1..Len(ask.tool_calls) :
              ask.tool_calls[k].outcome = "pending"
                  <=> (k = Len(ask.tool_calls) /\ ask.pc = "await_call_tool")

\* Two different tool uses on two sessions, the first call failed and the
\* second returned.
C15_Witness ==
    /\ ask.pc = "returned"
    /\ Len(ask.tool_calls) = 2
    /\ ask.tool_calls[1].name = "double" /\ ask.tool_calls[1].outcome = "error"
    /\ ask.tool_calls[2].name = "echo" /\ ask.tool_calls[2].outcome = "result"
    /\ ask.tool_calls[1].session # ask.tool_calls[2].session

\* What the callback received, in order, less the two texts process_query
\* never appends to final_text: the tool result and the processing notice.
RECURSIVE SinkFragments(_)
SinkFragments(sink) ==
    IF sink = <<>> THEN ""
    ELSE (IF sink[1].kind = "result" \/ sink[1].text = ProcessingMsg
          THEN "" ELSE sink[1].text) \o SinkFragments(Tail(sink))

\* The fragments of final_text are the texts the callback received, in order.
FragmentsKeptInOrder ==
    (ask.pc = "returned" /\ ask.model_calls # <<>>) =>
        Join("", ask.final_text) = SinkFragments(ask.sink)

\* C16: process_query returns the concatenation of the fragments of the
\* turn.  Whatever the outcomes of the tool calls and of the follow-up
\* streams, the text deltas, the error messages and the notices of the tool
\* calls appear in the returned text in the order the callback received
\* them, with nothing between them.
C16_ReturnsAllFragments ==
    (ask.pc = "returned" /\ ask.model_calls # <<>>) =>
        ask.ret = SinkFragments(ask.sink)

\* C17: the catalog is deduplicated.  It holds at most one entry for a tool
\* name, and the entry is the one of the tool of the session the routing map
\* gives the name to.
C17_CatalogDeduplicated ==
    AskRouted =>
        /\ \A i, j \in 1..Len(ask.available_tools) :
              ask.available_tools[i].name = ask.available_tools[j].name => i = j
        /\ \A i \in 1..Len(ask.available_tools) :
              LET owner == DictGet(ask.tool_to_server_map,
                                   ask.available_tools[i].name)
                  tools == DictGet(server_tools, owner)
              IN  \E k \in 1..Len(tools) :
                      CatalogEntry(tools[k]) = ask.available_tools[i]

\* The ClientSession context of every session of self.sessions has been exited.
AllSessionsReleased ==
    /\ Len(sessions) > 0
    /\ \A i \in 1..Len(sessions) : Resource("session", sessions[i][2]) \in closed

\* C19: cleanup destroys the sessions.  A process_query call made after
\* cleanup has exited the sessions does what it does with no session, and no
\* call_tool is made on a session whose context has been exited.
C19_NoCallOnReleasedSession ==
    /\ (ask.pc # "idle" /\ AllSessionsReleased) =>
          /\ ask.ret = NoSessionMsg
          /\ ask.model_calls = <<>>
    /\ \A k \in 1..Len(ask.tool_calls) :
          Resource("session", ask.tool_calls[k].session) \notin closed

\* The contents this call may add to its messages: the results of its tool
\* calls and the texts of its tool uses.
OwnContents ==
    Results \cup {ask'.tool_uses[j].text : j \in 1..Len(ask'.tool_uses)}

\* C20: process_query has no persistent effect.  No step of a call, whatever
\* its outcome, changes self.sessions or self.server_tools; a call starts
\* from a message list holding its own query alone; and every request it
\* makes to the model starts with its query and holds besides only contents
\* of its own tool uses and results.
C20_AskNoPersistentEffect ==
    [][/\ (ask.pc # "idle" \/ ask'.pc # "idle")
             => /\ sessions' = sessions
                /\ server_tools' = server_tools
       /\ (ask.pc \in {"idle", "returned", "raised"} /\ ask'.pc = "streaming")
             => /\ ask'.messages = <<UserMsg(ask'.query)>>
                /\ ask'.model_calls
                       = <<ModelCall(<<UserMsg(ask'.query)>>, TRUE,
                                     AvailableTools(server_tools))>>
       /\ \A j \in 1..Len(ask'.model_calls) :
             LET request == ask'.model_calls[j].messages
             IN  /\ request[1] = UserMsg(ask'.query)
                 /\ \A n \in 2..Len(request) : request[n].content \in OwnContents
      ]_vars

\* In a chat with two sessions, a call whose first tool call failed and whose
\* second returned a result that went into its messages, and that returned.
C20_Witness ==
    /\ ask.pc = "returned"
    /\ main_pc = "chat"
    /\ Len(sessions) = 2 /\ Len(server_tools) = 2
    /\ FailedCalls # {}
    /\ ask.messages = <<UserMsg(ask.query), AssistantMsg("t"), UserMsg("42")>>

====
